---- MODULE Spec2Model ----
(***************************************************************************)
(* mod_evasive (src/mod_evasive24.c): the NTT keyed counter store and the  *)
(* per-request classifier access_checker, as a state machine.              *)
(*                                                                         *)
(* C strings are sequences of one-character strings, so that snprintf is   *)
(* concatenation, strtok is a scan for '.', and ntt_hashcode runs over the *)
(* bytes of the key.                                                       *)
(***************************************************************************)
EXTENDS Integers, Sequences, FiniteSets, TLC

(***************************************************************************)
(* Bounds of the model.                                                    *)
(***************************************************************************)
\* time(NULL) runs over 0..MaxTime.
MaxTime == 2
\* A request is taken only while the counters it would increment are below
\* MaxCount (size_t counters are unbounded for every practical purpose).
MaxCount == 2
\* The same two bounds for SpecTumbling, whose windows are 2 s long and take
\* 3 hits.
MaxTimeLong == 4
MaxCountLong == 4
\* SpecStore: the timestamps given to the store run over 0..MaxStamp, and an
\* entry is counted up to MaxHits.
MaxStamp == 1
MaxHits == 1
\* At most MaxFailed inserts of a store find malloc or strdup failing.
MaxFailed == 1
\* The classifier with a failing allocator: the clock, the hits per entry and
\* the allocations that fail.
MaxTimeAlloc == 1
MaxCountAlloc == 2
MaxAllocFailed == 2
\* The directives of a configuration file.
MaxDirectives == 3
\* Two workers in one store: the clock and the hits per entry.
MaxTimeRace == 1
MaxCountRace == 2
\* The whitelist check on its own: the entries in the store.
MaxListed == 3

(***************************************************************************)
(* Program constants.                                                      *)
(***************************************************************************)
DEFAULT_HASH_TBL_SIZE == 3097
DEFAULT_PAGE_COUNT == 2
DEFAULT_SITE_COUNT == 50
DEFAULT_PAGE_INTERVAL == 1
DEFAULT_SITE_INTERVAL == 1
DEFAULT_BLOCKING_PERIOD == 10
\* DEFAULT_HTTP_REPLY is HTTP_FORBIDDEN
HTTP_FORBIDDEN == 403
\* OK of httpd.h: the request goes on.
OK == 0
\* ntt->items == SIZE_MAX makes ntt_insert refuse.  The model's integers end at
\* 2^31 - 1, which stands for it; no bounded run brings the item count near
\* either value.
SIZE_MAX == 2147483647

(***************************************************************************)
(* Strings.                                                                *)
(***************************************************************************)
\* The byte value of each character the model's keys are made of.
Ord ==
  ("*" :> 42) @@ ("." :> 46) @@ ("/" :> 47) @@ ("0" :> 48) @@ ("1" :> 49) @@
  ("2" :> 50) @@ ("3" :> 51) @@ ("4" :> 52) @@ ("5" :> 53) @@ ("6" :> 54) @@
  ("7" :> 55) @@ ("8" :> 56) @@ ("9" :> 57) @@ (":" :> 58) @@ ("C" :> 67) @@
  ("E" :> 69) @@ ("H" :> 72) @@
  ("I" :> 73) @@ ("L" :> 76) @@ ("S" :> 83) @@ ("T" :> 84) @@ ("W" :> 87) @@
  ("_" :> 95) @@ ("w" :> 119) @@ ("x" :> 120) @@ ("y" :> 121)

\* "WHITELIST_", "_" and "_SITE", the literals of the format strings.
WHITELIST_ == <<"W", "H", "I", "T", "E", "L", "I", "S", "T", "_">>
USCORE == <<"_">>
USITE == <<"_", "S", "I", "T", "E">>
DOT == <<".">>
STAR == <<"*">>

\* strtok(dip, "."): the non-empty maximal runs of non-'.' characters, in order.
RECURSIVE strtok(_, _)
strtok(s, cur) ==
  IF s = <<>> THEN (IF cur = <<>> THEN <<>> ELSE <<cur>>)
  ELSE IF Head(s) = "."
       THEN (IF cur = <<>> THEN strtok(Tail(s), <<>>)
             ELSE <<cur>> \o strtok(Tail(s), <<>>))
       ELSE strtok(Tail(s), Append(cur, Head(s)))

\* The octet[4][4] scratch array after the loop of is_whitelisted: zeroed by
\* memset, octet[i] is written only for a token of at most 3 characters, and i
\* advances for every token, up to 4 of them.
Octets(ip) ==
  LET toks == strtok(ip, <<>>)
  IN [i \in 0..3 |->
        IF i + 1 <= Len(toks) /\ Len(toks[i + 1]) <= 3 THEN toks[i + 1] ELSE <<>>]

\* pcre2_match(re, subject, ..., offset 0, ...) >= 0 for a pattern without
\* metacharacters and without anchors: the pattern occurs somewhere in subject.
pcre2_match(re, subject) ==
  \E i \in 0..(Len(subject) - Len(re)) : SubSeq(subject, i + 1, i + Len(re)) = re

(***************************************************************************)
(* NTT: the store.  A store is [size, items, tbl]; tbl maps each bucket of *)
(* 0..size-1 that is not NULL to its chain, the sequence of nodes from the *)
(* head; the buckets outside DOMAIN tbl hold NULL, as calloc leaves them.  *)
(* A node is [key, timestamp, count].  A node pointer is [b, i]: position  *)
(* i of the chain of bucket b; i = 0 is the NULL pointer.                  *)
(***************************************************************************)
NULL == [size |-> 0, items |-> 0, tbl |-> <<>>]
NULLP == [b |-> 0, i |-> 0]

\* A size_t beyond the model's integers is kept in two digits of base 65536:
\* [hi, lo] is hi * 65536 + lo.
Wide(n) == [hi |-> n \div 65536, lo |-> n % 65536]
Narrow(w) == w.hi * 65536 + w.lo
Less(a, b) == a.hi < b.hi \/ (a.hi = b.hi /\ a.lo < b.lo)

\* The entries of the prime table that the model's integers can hold; the last
\* two, 3221225473 and 4294967291, are in ntt_prime_list_tail.
ntt_prime_list ==
  <<53, 97, 193, 389, 769,
    1543, 3079, 6151, 12289, 24593,
    49157, 98317, 196613, 393241, 786433,
    1572869, 3145739, 6291469, 12582917, 25165843,
    50331653, 100663319, 201326611, 402653189, 805306457,
    1610612741>>
ntt_prime_list_tail == <<[hi |-> 49152, lo |-> 1], [hi |-> 65535, lo |-> 65531]>>
ntt_num_primes == Len(ntt_prime_list) + Len(ntt_prime_list_tail)
\* ntt_prime_list[i] of the source, i from 0.
PrimeAt(i) ==
  IF i < Len(ntt_prime_list) THEN Wide(ntt_prime_list[i + 1])
  ELSE ntt_prime_list_tail[i + 1 - Len(ntt_prime_list)]

\* val = 5 * val + *key over the bytes of key, then val % ntt->size.  For keys
\* shorter than 27 bytes val stays below 2^64 and never wraps, so reducing
\* modulo size at each step gives the same bucket.
\* hashval(key, i, size) is val after the first i bytes of key.
RECURSIVE hashval(_, _, _)
hashval(key, i, size) ==
  IF i = 0 THEN 0
  ELSE (5 * hashval(key, i - 1, size) + Ord[key[i]]) % size

ntt_hashcode(ntt, key) == hashval(key, Len(key), ntt.size)

\* malloc and strdup succeeded: the node of a new key.
ntt_node_create(key, timestamp) ==
  [key |-> key, timestamp |-> timestamp, count |-> 0]

\* A faulty loop that also steps past a prime equal to size.  C13 has to tell
\* it from PrimeIndex.
RECURSIVE PrimeIndex_past(_, _)
PrimeIndex_past(i, size) ==
  IF i < ntt_num_primes - 1 /\ ~Less(size, PrimeAt(i))
  THEN PrimeIndex_past(i + 1, size) ELSE i

\* while (i < ntt_num_primes - 1 && ntt_prime_list[i] < size) i++;
\* size is a Wide number.
RECURSIVE PrimeIndex(_, _)
PrimeIndex(i, size) ==
  IF i < ntt_num_primes - 1 /\ Less(PrimeAt(i), size)
  THEN PrimeIndex(i + 1, size) ELSE i

\* ntt->size after ntt_create(size), both as Wide numbers.
ntt_size(size) == PrimeAt(PrimeIndex(0, size))

\* ntt_create with malloc and calloc succeeding; a failure gives NULL.  The
\* model only keeps stores whose size its integers can hold.
ntt_create(size) ==
  LET n == Narrow(ntt_size(Wide(size)))
  IN [size |-> n, items |-> 0, tbl |-> <<>>]

\* ntt->tbl[b] as a chain: empty when the bucket holds NULL.
Chain(ntt, b) == IF b \in DOMAIN ntt.tbl THEN ntt.tbl[b] ELSE <<>>

\* A faulty scan that takes the head of the chain for the node of any key.
\* C11 has to tell it from ChainIndex.
ChainIndex_first(chain, key, i) == IF i > Len(chain) THEN 0 ELSE i

\* The first position of chain whose node has this key, 0 if none.
RECURSIVE ChainIndex(_, _, _)
ChainIndex(chain, key, i) ==
  IF i > Len(chain) THEN 0
  ELSE IF chain[i].key = key THEN i
  ELSE ChainIndex(chain, key, i + 1)

ntt_find(ntt, key) ==
  IF ntt = NULL THEN NULLP
  ELSE LET hash_code == ntt_hashcode(ntt, key)
           i == ChainIndex(Chain(ntt, hash_code), key, 1)
       IN IF i = 0 THEN NULLP ELSE [b |-> hash_code, i |-> i]

\* *n, for a non-NULL node pointer n.
Node(ntt, n) == ntt.tbl[n.b][n.i]

\* A faulty ntt_insert that touches an existing entry without resetting its
\* count.  C12 has to tell it from ntt_insert.
ntt_insert_keep_count(ntt, key, timestamp, mem) ==
  IF ntt = NULL \/ ntt.items = SIZE_MAX THEN ntt
  ELSE LET hash_code == ntt_hashcode(ntt, key)
           i == ChainIndex(Chain(ntt, hash_code), key, 1)
       IN IF i # 0
          THEN [ntt EXCEPT !.tbl[hash_code][i].timestamp = timestamp]
          ELSE IF mem
          THEN [ntt EXCEPT !.items = @ + 1,
                           !.tbl = (hash_code :> Append(Chain(ntt, hash_code),
                                                        ntt_node_create(key, timestamp)))
                                   @@ @]
          ELSE [ntt EXCEPT !.items = @ + 1]

\* The store after ntt_insert(ntt, key, timestamp).  mem says whether the
\* allocations of ntt_node_create succeed: on failure new_node is NULL, the
\* item count is incremented all the same and the NULL is stored where the
\* chain already ends.
ntt_insert(ntt, key, timestamp, mem) ==
  IF ntt = NULL \/ ntt.items = SIZE_MAX THEN ntt
  ELSE LET hash_code == ntt_hashcode(ntt, key)
           i == ChainIndex(Chain(ntt, hash_code), key, 1)
       IN IF i # 0
          THEN [ntt EXCEPT !.tbl[hash_code][i].timestamp = timestamp,
                           !.tbl[hash_code][i].count = 0]
          ELSE IF mem
          THEN [ntt EXCEPT !.items = @ + 1,
                           !.tbl = (hash_code :> Append(Chain(ntt, hash_code),
                                                        ntt_node_create(key, timestamp)))
                                   @@ @]
          ELSE [ntt EXCEPT !.items = @ + 1]

\* What ntt_insert(ntt, key, timestamp) returns, as a pointer into the store
\* afterwards: the node of the key, or NULL when nothing was created.
ntt_insert_ret(ntt, key, timestamp, mem) ==
  IF ntt = NULL \/ ntt.items = SIZE_MAX THEN NULLP
  ELSE LET hash_code == ntt_hashcode(ntt, key)
           i == ChainIndex(Chain(ntt, hash_code), key, 1)
       IN IF i # 0 THEN [b |-> hash_code, i |-> i]
          ELSE IF mem THEN [b |-> hash_code, i |-> Len(Chain(ntt, hash_code)) + 1]
          ELSE NULLP

\* The chain without its position i.
Unlink(chain, i) == SubSeq(chain, 1, i - 1) \o SubSeq(chain, i + 1, Len(chain))

\* The store after ntt_delete(ntt, key): the first node of the chain with this
\* key is unlinked and freed; a bucket whose chain becomes empty holds NULL.
ntt_delete(ntt, key) ==
  IF ntt = NULL THEN ntt
  ELSE LET hash_code == ntt_hashcode(ntt, key)
           chain == Chain(ntt, hash_code)
           i == ChainIndex(chain, key, 1)
       IN IF i = 0 THEN ntt
          ELSE [ntt EXCEPT !.items = @ - 1,
                           !.tbl = IF Len(chain) = 1
                                   THEN [b \in DOMAIN @ \ {hash_code} |-> @[b]]
                                   ELSE [@ EXCEPT ![hash_code] = Unlink(chain, i)]]

\* What ntt_delete returns: -1 without a store, 0 when it deleted, -5 when the
\* key was not there.
ntt_delete_ret(ntt, key) ==
  IF ntt = NULL THEN -1
  ELSE IF ntt_find(ntt, key) # NULLP THEN 0 ELSE -5

(***************************************************************************)
(* Teardown, on the heap.  ntt_destroy walks the store with a cursor while *)
(* ntt_delete frees nodes under it, so here the nodes are heap cells with  *)
(* an address, the address being the place [b, i] the node has when the    *)
(* teardown starts.  A heap is [size, items, head, next, key, freed,       *)
(* twice, stale]: head[b] is ntt->tbl[b], next and key are the fields of   *)
(* each cell, freed is the set of cells given to free(), twice says that   *)
(* some cell was given to free() again, and stale that a field of a freed  *)
(* cell was read or written.                                               *)
(***************************************************************************)
Cells(ntt) ==
  UNION {{[b |-> b, i |-> i] : i \in 1..Len(ntt.tbl[b])} : b \in DOMAIN ntt.tbl}

Heap(ntt) ==
  [size |-> ntt.size, items |-> ntt.items,
   head |-> [b \in DOMAIN ntt.tbl |-> [b |-> b, i |-> 1]],
   next |-> [p \in Cells(ntt) |->
               IF p.i < Len(ntt.tbl[p.b]) THEN [b |-> p.b, i |-> p.i + 1] ELSE NULLP],
   key |-> [p \in Cells(ntt) |-> ntt.tbl[p.b][p.i].key],
   freed |-> {}, twice |-> FALSE, stale |-> FALSE]

\* ntt->tbl[b] of the heap.
HeadOf(h, b) == IF b \in DOMAIN h.head THEN h.head[b] ELSE NULLP

\* The while loop of ntt_delete from node on: the cell to delete and its
\* parent, and whether the loop looked into a freed cell.
RECURSIVE DeleteWalk(_, _, _, _, _)
DeleteWalk(h, node, parent, key, stale) ==
  IF node = NULLP THEN [del_node |-> NULLP, parent |-> parent, stale |-> stale]
  ELSE IF h.key[node] = key
  THEN [del_node |-> node, parent |-> parent, stale |-> stale \/ node \in h.freed]
  ELSE DeleteWalk(h, h.next[node], node, key, stale \/ node \in h.freed)

\* ntt_delete(ntt, key) on the heap.
h_ntt_delete(h, key) ==
  LET hash_code == hashval(key, Len(key), h.size)
      w == DeleteWalk(h, HeadOf(h, hash_code), NULLP, key, FALSE)
      d == w.del_node
  IN IF d = NULLP THEN [h EXCEPT !.stale = @ \/ w.stale]
     ELSE [h EXCEPT !.next = IF w.parent # NULLP
                              THEN [@ EXCEPT ![w.parent] = h.next[d]] ELSE @,
                    !.head = IF w.parent # NULLP THEN @
                             ELSE [@ EXCEPT ![hash_code] = h.next[d]],
                    !.freed = @ \cup {d},
                    !.twice = @ \/ d \in h.freed,
                    !.stale = @ \/ w.stale \/ (w.parent # NULLP /\ w.parent \in h.freed),
                    !.items = @ - 1]

\* c_ntt_next(ntt, c) for the cursor c = [iter_index, iter_next]: the node it
\* returns, the cursor afterwards, and whether it read a freed cell.  The scan
\* of the buckets stops at the first one from iter_index on that is not NULL.
h_c_ntt_next(h, c) ==
  IF c.iter_next # NULLP
  THEN [node |-> c.iter_next,
        c |-> [c EXCEPT !.iter_next = h.next[c.iter_next]],
        stale |-> c.iter_next \in h.freed]
  ELSE LET full == {b \in DOMAIN h.head : b >= c.iter_index /\ h.head[b] # NULLP}
       IN IF full = {}
          THEN [node |-> NULLP, c |-> [c EXCEPT !.iter_index = h.size], stale |-> FALSE]
          ELSE LET index == CHOOSE b \in full : \A x \in full : b <= x
               IN [node |-> h.head[index],
                   c |-> [iter_index |-> index + 1, iter_next |-> h.next[h.head[index]]],
                   stale |-> h.head[index] \in h.freed]

\* c_ntt_first(ntt, c)
h_c_ntt_first(h) == h_c_ntt_next(h, [iter_index |-> 0, iter_next |-> NULLP])

\* The loop of ntt_destroy from node on.
RECURSIVE DestroyLoop(_, _, _)
DestroyLoop(h, node, c) ==
  IF node = NULLP THEN h
  ELSE LET nx == h_c_ntt_next(h, c)
           h1 == [h EXCEPT !.stale = @ \/ nx.stale \/ node \in h.freed]
       IN DestroyLoop(h_ntt_delete(h1, h.key[node]), nx.node, nx.c)

\* The heap when ntt_destroy(ntt) reaches free(ntt->tbl), for a store that is
\* not NULL.
ntt_destroy(ntt) ==
  LET h == Heap(ntt)
      first == h_c_ntt_first(h)
  IN DestroyLoop([h EXCEPT !.stale = first.stale], first.node, first.c)

\* The item count less the number of entries in the chains.
Uncounted(ntt) == IF ntt = NULL THEN 0 ELSE ntt.items - Cardinality(Cells(ntt))

(***************************************************************************)
(* The whitelists.                                                         *)
(***************************************************************************)
\* A faulty is_whitelisted that looks up the exact key only.  C5 has to tell it
\* from is_whitelisted.
is_whitelisted_exact(ip, ntt) == ntt_find(ntt, WHITELIST_ \o ip) # NULLP

\* is_whitelisted(ip, cfg), with strdup succeeding: the exact key, then the
\* three wildcard keys, each looked up under "WHITELIST_".
is_whitelisted(ip, ntt) ==
  LET octet == Octets(ip)
  IN \/ ntt_find(ntt, WHITELIST_ \o ip) # NULLP
     \/ ntt_find(ntt,
                  WHITELIST_ \o octet[0] \o DOT \o STAR \o DOT \o STAR \o DOT \o STAR) # NULLP
     \/ ntt_find(ntt,
                  WHITELIST_ \o octet[0] \o DOT \o octet[1] \o DOT \o STAR \o DOT \o STAR) # NULLP
     \/ ntt_find(ntt,
                  WHITELIST_ \o octet[0] \o DOT \o octet[1] \o DOT \o octet[2] \o DOT \o STAR) # NULLP

\* A faulty is_uri_whitelisted that matches nothing.  C6 has to tell it from
\* is_uri_whitelisted.
is_uri_whitelisted_never(uri, c) == FALSE

\* is_uri_whitelisted(uri, cfg): some pattern of cfg->uri_whitelist matches.
is_uri_whitelisted(uri, c) ==
  \E k \in 1..Len(c.uri_whitelist) : pcre2_match(c.uri_whitelist[k], uri)
(***************************************************************************)
(* The classifier.  A request r is [useragent_ip, uri, prev, main]; prev   *)
(* and main say whether r->prev and r->main are set (an internal redirect, *)
(* a subrequest).                                                          *)
(***************************************************************************)
\* A faulty page block that denies without putting the client on hold (no
\* ntt_insert of the bare address).  C2 has to tell it from page_check.
page_check_no_hold(c, ntt, r, t, mem) ==
  LET hash_key == r.useragent_ip \o USCORE \o r.uri
      n == ntt_find(ntt, hash_key)
  IN IF n # NULLP
     THEN LET hit == /\ t - Node(ntt, n).timestamp < c.page_interval
                     /\ Node(ntt, n).count >= c.page_count
              s1 == IF hit THEN ntt
                    ELSE IF t - Node(ntt, n).timestamp >= c.page_interval
                    THEN [ntt EXCEPT !.tbl[n.b][n.i].count = 0]
                    ELSE ntt
          IN [hit_list |-> [s1 EXCEPT !.tbl[n.b][n.i].timestamp = t,
                                      !.tbl[n.b][n.i].count = @ + 1],
              hit |-> hit]
     ELSE [hit_list |-> ntt_insert(ntt, hash_key, t, mem), hit |-> FALSE]

\* A faulty page block that resets the count only when more than page_interval
\* has passed.  C4 has to tell it from page_check.
page_check_late_reset(c, ntt, r, t, mem) ==
  LET hash_key == r.useragent_ip \o USCORE \o r.uri
      n == ntt_find(ntt, hash_key)
  IN IF n # NULLP
     THEN LET hit == /\ t - Node(ntt, n).timestamp < c.page_interval
                     /\ Node(ntt, n).count >= c.page_count
              s1 == IF hit THEN ntt_insert(ntt, r.useragent_ip, t, mem)
                    ELSE IF t - Node(ntt, n).timestamp > c.page_interval
                    THEN [ntt EXCEPT !.tbl[n.b][n.i].count = 0]
                    ELSE ntt
          IN [hit_list |-> [s1 EXCEPT !.tbl[n.b][n.i].timestamp = t,
                                      !.tbl[n.b][n.i].count = @ + 1],
              hit |-> hit]
     ELSE [hit_list |-> ntt_insert(ntt, hash_key, t, mem), hit |-> FALSE]

\* A faulty page block that denies the request when the entry of a new key
\* cannot be allocated.  C16 has to tell it from page_check.
page_check_fail_closed(c, ntt, r, t, mem) ==
  LET hash_key == r.useragent_ip \o USCORE \o r.uri
      n == ntt_find(ntt, hash_key)
  IN IF n # NULLP
     THEN LET hit == /\ t - Node(ntt, n).timestamp < c.page_interval
                     /\ Node(ntt, n).count >= c.page_count
              s1 == IF hit THEN ntt_insert(ntt, r.useragent_ip, t, mem)
                    ELSE IF t - Node(ntt, n).timestamp >= c.page_interval
                    THEN [ntt EXCEPT !.tbl[n.b][n.i].count = 0]
                    ELSE ntt
          IN [hit_list |-> [s1 EXCEPT !.tbl[n.b][n.i].timestamp = t,
                                      !.tbl[n.b][n.i].count = @ + 1],
              hit |-> hit]
     ELSE [hit_list |-> ntt_insert(ntt, hash_key, t, mem), hit |-> ~mem]

\* "Has URI been hit too much?": the block on the key "<ip>_<uri>".  Gives the
\* store afterwards and whether this block set ret = cfg->http_reply.
page_check(c, ntt, r, t, mem) ==
  LET hash_key == r.useragent_ip \o USCORE \o r.uri
      n == ntt_find(ntt, hash_key)
  IN IF n # NULLP
     THEN LET hit == /\ t - Node(ntt, n).timestamp < c.page_interval
                     /\ Node(ntt, n).count >= c.page_count
              s1 == IF hit THEN ntt_insert(ntt, r.useragent_ip, t, mem)
                    ELSE IF t - Node(ntt, n).timestamp >= c.page_interval
                    THEN [ntt EXCEPT !.tbl[n.b][n.i].count = 0]
                    ELSE ntt
          IN [hit_list |-> [s1 EXCEPT !.tbl[n.b][n.i].timestamp = t,
                                      !.tbl[n.b][n.i].count = @ + 1],
              hit |-> hit]
     ELSE [hit_list |-> ntt_insert(ntt, hash_key, t, mem), hit |-> FALSE]

\* A faulty site block that denies on the count alone, however old the entry.
\* C24 has to tell it from site_check.
site_check_count_only(c, ntt, r, t, mem) ==
  LET hash_key == r.useragent_ip \o USITE
      n == ntt_find(ntt, hash_key)
  IN IF n # NULLP
     THEN LET hit == Node(ntt, n).count >= c.site_count
              s1 == IF hit THEN ntt_insert(ntt, r.useragent_ip, t, mem)
                    ELSE IF t - Node(ntt, n).timestamp >= c.site_interval
                    THEN [ntt EXCEPT !.tbl[n.b][n.i].count = 0]
                    ELSE ntt
          IN [hit_list |-> [s1 EXCEPT !.tbl[n.b][n.i].timestamp = t,
                                      !.tbl[n.b][n.i].count = @ + 1],
              hit |-> hit]
     ELSE [hit_list |-> ntt_insert(ntt, hash_key, t, mem), hit |-> FALSE]

\* "Has site been hit too much?": the block on the key "<ip>_SITE".
site_check(c, ntt, r, t, mem) ==
  LET hash_key == r.useragent_ip \o USITE
      n == ntt_find(ntt, hash_key)
  IN IF n # NULLP
     THEN LET hit == /\ t - Node(ntt, n).timestamp < c.site_interval
                     /\ Node(ntt, n).count >= c.site_count
              s1 == IF hit THEN ntt_insert(ntt, r.useragent_ip, t, mem)
                    ELSE IF t - Node(ntt, n).timestamp >= c.site_interval
                    THEN [ntt EXCEPT !.tbl[n.b][n.i].count = 0]
                    ELSE ntt
          IN [hit_list |-> [s1 EXCEPT !.tbl[n.b][n.i].timestamp = t,
                                      !.tbl[n.b][n.i].count = @ + 1],
              hit |-> hit]
     ELSE [hit_list |-> ntt_insert(ntt, hash_key, t, mem), hit |-> FALSE]

\* A faulty outer condition that lets subrequests in.  C10 has to tell it from
\* checks_request.
checks_request_sub(c, ntt, r) == c.enabled /\ ~r.prev /\ ntt # NULL

\* The condition under which access_checker looks at the request at all.
checks_request(c, ntt, r) == c.enabled /\ ~r.prev /\ ~r.main /\ ntt # NULL

\* A faulty hold test that still holds at exactly blocking_period.  C3 has to
\* tell it from on_hold.
on_hold_inclusive(c, ntt, n, t) ==
  n # NULLP /\ t - Node(ntt, n).timestamp <= c.blocking_period

\* "First see if the IP itself is on hold": n is ntt_find of the bare IP.
on_hold(c, ntt, n, t) ==
  n # NULLP /\ t - Node(ntt, n).timestamp < c.blocking_period

\* A faulty access_checker that asks the URI whitelist before the hold.  C7 has
\* to tell it from access_checker.
access_checker_uri_first(c, ntt, r, t, mem) ==
  IF ~checks_request(c, ntt, r)
  THEN [ret |-> OK, hit_list |-> ntt, path |-> "off", page |-> FALSE, site |-> FALSE]
  ELSE IF is_whitelisted(r.useragent_ip, ntt)
  THEN [ret |-> OK, hit_list |-> ntt, path |-> "whitelisted",
        page |-> FALSE, site |-> FALSE]
  ELSE IF is_uri_whitelisted(r.uri, c)
  THEN [ret |-> OK, hit_list |-> ntt, path |-> "uri_whitelisted",
        page |-> FALSE, site |-> FALSE]
  ELSE LET n == ntt_find(ntt, r.useragent_ip)
       IN IF on_hold(c, ntt, n, t)
          THEN [ret |-> c.http_reply,
                hit_list |-> [ntt EXCEPT !.tbl[n.b][n.i].timestamp = t],
                path |-> "hold", page |-> FALSE, site |-> FALSE]
          ELSE LET p == page_check(c, ntt, r, t, mem[1])
                   s == site_check(c, p.hit_list, r, t, mem[2])
               IN [ret |-> IF p.hit \/ s.hit THEN c.http_reply ELSE OK,
                   hit_list |-> s.hit_list, path |-> "windows",
                   page |-> p.hit, site |-> s.hit]

\* A faulty access_checker that counts the request of a held client against
\* its page window.  C17 has to tell it from access_checker.
access_checker_hold_counts(c, ntt, r, t, mem) ==
  IF ~checks_request(c, ntt, r)
  THEN [ret |-> OK, hit_list |-> ntt, path |-> "off", page |-> FALSE, site |-> FALSE]
  ELSE IF is_whitelisted(r.useragent_ip, ntt)
  THEN [ret |-> OK, hit_list |-> ntt, path |-> "whitelisted",
        page |-> FALSE, site |-> FALSE]
  ELSE LET n == ntt_find(ntt, r.useragent_ip)
       IN IF on_hold(c, ntt, n, t)
          THEN [ret |-> c.http_reply,
                hit_list |-> [page_check(c, ntt, r, t, mem[1]).hit_list
                                EXCEPT !.tbl[n.b][n.i].timestamp = t],
                path |-> "hold", page |-> FALSE, site |-> FALSE]
          ELSE IF is_uri_whitelisted(r.uri, c)
          THEN [ret |-> OK, hit_list |-> ntt, path |-> "uri_whitelisted",
                page |-> FALSE, site |-> FALSE]
          ELSE LET p == page_check(c, ntt, r, t, mem[1])
                   s == site_check(c, p.hit_list, r, t, mem[2])
               IN [ret |-> IF p.hit \/ s.hit THEN c.http_reply ELSE OK,
                   hit_list |-> s.hit_list, path |-> "windows",
                   page |-> p.hit, site |-> s.hit]

\* A faulty access_checker that removes the bare entry of a client whose hold
\* has lapsed.  C20 has to tell it from access_checker.
access_checker_expires(c, ntt, r, t, mem) ==
  IF ~checks_request(c, ntt, r)
  THEN [ret |-> OK, hit_list |-> ntt, path |-> "off", page |-> FALSE, site |-> FALSE]
  ELSE IF is_whitelisted(r.useragent_ip, ntt)
  THEN [ret |-> OK, hit_list |-> ntt, path |-> "whitelisted",
        page |-> FALSE, site |-> FALSE]
  ELSE LET n == ntt_find(ntt, r.useragent_ip)
       IN IF on_hold(c, ntt, n, t)
          THEN [ret |-> c.http_reply,
                hit_list |-> [ntt EXCEPT !.tbl[n.b][n.i].timestamp = t],
                path |-> "hold", page |-> FALSE, site |-> FALSE]
          ELSE IF is_uri_whitelisted(r.uri, c)
          THEN [ret |-> OK, hit_list |-> ntt, path |-> "uri_whitelisted",
                page |-> FALSE, site |-> FALSE]
          ELSE LET p == page_check(c, ntt_delete(ntt, r.useragent_ip), r, t, mem[1])
                   s == site_check(c, p.hit_list, r, t, mem[2])
               IN [ret |-> IF p.hit \/ s.hit THEN c.http_reply ELSE OK,
                   hit_list |-> s.hit_list, path |-> "windows",
                   page |-> p.hit, site |-> s.hit]

\* The outcome of access_checker(r) at time t on store ntt: ret, the store
\* afterwards, and which way the request went: "off" (the outer condition
\* fails), "whitelisted", "hold", "uri_whitelisted", or "windows" with the
\* results of the two window blocks.  mem[1] and mem[2] say whether the
\* allocation inside the ntt_insert of the page and of the site block succeeds.
access_checker(c, ntt, r, t, mem) ==
  IF ~checks_request(c, ntt, r)
  THEN [ret |-> OK, hit_list |-> ntt, path |-> "off", page |-> FALSE, site |-> FALSE]
  ELSE IF is_whitelisted(r.useragent_ip, ntt)
  THEN [ret |-> OK, hit_list |-> ntt, path |-> "whitelisted",
        page |-> FALSE, site |-> FALSE]
  ELSE LET n == ntt_find(ntt, r.useragent_ip)
       IN IF on_hold(c, ntt, n, t)
          THEN [ret |-> c.http_reply,
                hit_list |-> [ntt EXCEPT !.tbl[n.b][n.i].timestamp = t],
                path |-> "hold", page |-> FALSE, site |-> FALSE]
          ELSE IF is_uri_whitelisted(r.uri, c)
          THEN [ret |-> OK, hit_list |-> ntt, path |-> "uri_whitelisted",
                page |-> FALSE, site |-> FALSE]
          ELSE LET p == page_check(c, ntt, r, t, mem[1])
                   s == site_check(c, p.hit_list, r, t, mem[2])
               IN [ret |-> IF p.hit \/ s.hit THEN c.http_reply ELSE OK,
                   hit_list |-> s.hit_list, path |-> "windows",
                   page |-> p.hit, site |-> s.hit]

\* "Perform email notification and system functions": whether the call with
\* outcome res for client ip creates the marker file, logs the alert, sends the
\* mail and runs the command, given the marker files that exist; fopen of the
\* marker file succeeds.  Nothing in the module removes a marker file.
notifies(c, res, ip, files) ==
  res.path # "off" /\ res.ret = c.http_reply /\ ip \notin files

(***************************************************************************)
(* Configuration.  A scope is [cfg, hit_list]: the settings and the store  *)
(* cfg->hit_list points to.  created says whether the allocations of       *)
(* ntt_create succeed in this process.                                     *)
(***************************************************************************)
\* apr_pcalloc zeroes the record and create_dir_conf then sets every field
\* but blocking_period.
create_dir_conf(created) ==
  [cfg |-> [enabled |-> FALSE,
            hash_table_size |-> DEFAULT_HASH_TBL_SIZE,
            uri_whitelist |-> <<>>,
            page_count |-> DEFAULT_PAGE_COUNT,
            page_interval |-> DEFAULT_PAGE_INTERVAL,
            site_count |-> DEFAULT_SITE_COUNT,
            site_interval |-> DEFAULT_SITE_INTERVAL,
            blocking_period |-> 0,
            http_reply |-> HTTP_FORBIDDEN],
   hit_list |-> IF created THEN ntt_create(DEFAULT_HASH_TBL_SIZE) ELSE NULL]

get_enabled(s, value) == [s EXCEPT !.cfg.enabled = (value = "true")]
\* The old store, entries included, is dropped for a new, empty one.
get_hash_tbl_size(s, n, created) ==
  LET size == IF n <= 0 THEN DEFAULT_HASH_TBL_SIZE ELSE n
  IN [s EXCEPT !.cfg.hash_table_size = size,
               !.hit_list = IF created THEN ntt_create(size) ELSE NULL]
get_page_count(s, n) ==
  [s EXCEPT !.cfg.page_count = IF n <= 0 THEN DEFAULT_PAGE_COUNT ELSE n]
get_site_count(s, n) ==
  [s EXCEPT !.cfg.site_count = IF n <= 0 THEN DEFAULT_SITE_COUNT ELSE n]
get_page_interval(s, n) ==
  [s EXCEPT !.cfg.page_interval = IF n <= 0 THEN DEFAULT_PAGE_INTERVAL ELSE n]
get_site_interval(s, n) ==
  [s EXCEPT !.cfg.site_interval = IF n <= 0 THEN DEFAULT_SITE_INTERVAL ELSE n]
get_blocking_period(s, n) ==
  [s EXCEPT !.cfg.blocking_period = IF n <= 0 THEN DEFAULT_BLOCKING_PERIOD ELSE n]
\* DOSWhitelist: ntt_insert of "WHITELIST_<ip>" at the time of configuration.
whitelist(s, ip, t) ==
  [s EXCEPT !.hit_list = ntt_insert(@, WHITELIST_ \o ip, t, TRUE)]
\* DOSWhitelistUri with a pattern that compiles: the node goes to the front.
whitelist_uri(s, uri_re) == [s EXCEPT !.cfg.uri_whitelist = <<uri_re>> \o @]

\* access_cmds: the handler of one directive [name, arg], read at time t.
Directive(s, d, t, created) ==
  CASE d.name = "DOSEnabled" -> get_enabled(s, d.arg)
    [] d.name = "DOSHashTableSize" -> get_hash_tbl_size(s, d.arg, created)
    [] d.name = "DOSPageCount" -> get_page_count(s, d.arg)
    [] d.name = "DOSSiteCount" -> get_site_count(s, d.arg)
    [] d.name = "DOSPageInterval" -> get_page_interval(s, d.arg)
    [] d.name = "DOSSiteInterval" -> get_site_interval(s, d.arg)
    [] d.name = "DOSBlockingPeriod" -> get_blocking_period(s, d.arg)
    [] d.name = "DOSWhitelist" -> whitelist(s, d.arg, t)
    [] d.name = "DOSWhitelistUri" -> whitelist_uri(s, d.arg)

\* The scope after the directives of a configuration file, in their order.
RECURSIVE Configure(_, _, _, _)
Configure(s, file, t, created) ==
  IF file = <<>> THEN s
  ELSE Configure(Directive(s, Head(file), t, created), Tail(file), t, created)

(***************************************************************************)
(* The clients, paths and configuration files of the model.                *)
(***************************************************************************)
IP_A == <<"1", ".", "2", ".", "3", ".", "4">>
IP_W == <<"1", "0", ".", "0", ".", "0", ".", "1">>
IP_W_WILD == <<"1", "0", ".", "*", ".", "*", ".", "*">>
IPs == {IP_A, IP_W}
URI_X == <<"/", "x">>
URI_Y == <<"/", "y">>
URI_W == <<"/", "w">>
URIs == {URI_X, URI_Y, URI_W}
\* The requests the host hands over: every client asks for every path at top
\* level, and the first client for "/x" and the second for "/w" also by an
\* internal redirect (r->prev set) and by a subrequest (r->main set).
R(ip, uri, prev, main) == [useragent_ip |-> ip, uri |-> uri, prev |-> prev, main |-> main]
Requests ==
  {R(ip, uri, FALSE, FALSE) : ip \in IPs, uri \in URIs} \cup
  {R(IP_A, URI_X, TRUE, FALSE), R(IP_A, URI_X, FALSE, TRUE),
   R(IP_W, URI_W, TRUE, FALSE), R(IP_W, URI_W, FALSE, TRUE)}

D(name, arg) == [name |-> name, arg |-> arg]
\* What every configuration file of the model starts with: a table of 53
\* buckets, IP_W whitelisted (literally or by wildcard), "/w" whitelisted.
Preamble(wl) ==
  <<D("DOSHashTableSize", 50), D("DOSWhitelist", wl), D("DOSWhitelistUri", URI_W)>>
ConfigFiles ==
  { \* the default thresholds (2 per 1 s, 50 per 1 s), blocking for 2 s
    Preamble(IP_W) \o <<D("DOSEnabled", "true"), D("DOSBlockingPeriod", 2)>>,
    \* 1 hit per 2 s on a page, blocking for 2 s
    Preamble(IP_W_WILD) \o
      <<D("DOSEnabled", "true"), D("DOSPageCount", 1), D("DOSPageInterval", 2),
        D("DOSBlockingPeriod", 2)>>,
    \* 1 hit per 2 s on the site, blocking for 1 s
    Preamble(IP_W) \o
      <<D("DOSEnabled", "true"), D("DOSSiteCount", 1), D("DOSSiteInterval", 2),
        D("DOSBlockingPeriod", 1)>>,
    \* 1 hit per 1 s on a page and on the site, no DOSBlockingPeriod
    Preamble(IP_W_WILD) \o
      <<D("DOSEnabled", "true"), D("DOSPageCount", 1), D("DOSSiteCount", 1)>>,
    \* not enabled
    Preamble(IP_W) \o <<D("DOSPageCount", 1), D("DOSBlockingPeriod", 2)>> }

(***************************************************************************)
(* The state machine.                                                      *)
(***************************************************************************)
VARIABLES
  cfg,       \* evasive_config but for hit_list: the settings of the scope
  hit_list,  \* cfg->hit_list: the store, or NULL when ntt_create failed
  now,       \* what time(NULL) returns
  last,      \* the last call of access_checker: the request and its outcome
  mon,       \* per window key, a record of the requests that reached its window
  wdeny,     \* per client, when a window denied its latest request, or -1
  markers,   \* the clients whose marker file "<log_dir>/dos-<ip>" exists
  workers,   \* the calls of the page block that run step by step, see below
  seen       \* per client, when its latest request came and how long after
             \* the one before (-1: there was none), where the host keeps track

vars == <<cfg, hit_list, now, last, mon, wdeny, markers, workers, seen>>

\* Two workers of the host; each runs the page block of access_checker for one
\* request, one memory access or one walk of a chain at a time.  proc[w] is the
\* position of worker w and its locals: the request r, the time t, the node n
\* that ntt_find returned, and inside ntt_insert the key, the node m found or
\* the parent (0: none) after which the new node goes, the item count and the
\* hit count it has read, and whether it came from the branch that denies.
\* ref is the store as the same calls leave it when each runs alone, in the
\* order they started; overlapped says whether a call has started while
\* another was running; unreachable counts the nodes no chain leads to.
Workers == {1, 2}
NoCall ==
  [pc |-> "idle", r |-> <<>>, t |-> 0, n |-> NULLP, key |-> <<>>, m |-> NULLP,
   parent |-> 0, items |-> 0, count |-> 0, hit |-> FALSE]
NoWorkers ==
  [proc |-> [w \in Workers |-> NoCall], ref |-> NULL, overlapped |-> FALSE,
   unreachable |-> 0]

\* No client has asked for anything.
NeverSeen == [ip \in IPs |-> [at |-> -1, gap |-> -1]]

PageKey(ip, uri) == ip \o USCORE \o uri
SiteKey(ip) == ip \o USITE
WinKeys == {PageKey(ip, uri) : ip \in IPs, uri \in URIs} \cup {SiteKey(ip) : ip \in IPs}

\* mon[k].n = 0: no request has reached the window of k.  mon[k].n = -1: some
\* request reached it interval seconds or more after the previous one, or was
\* denied by the hold in between.  Otherwise the n requests that reached it so
\* far each came less than interval seconds after the previous one, at is the
\* time of the last, and start, hits and under follow a counter that restarts
\* at 1 whenever interval seconds have passed since start: under says that this
\* counter has stayed below the threshold all along.
Unseen == [n |-> 0, at |-> 0, start |-> 0, hits |-> 0, under |-> FALSE]
Broken == [n |-> -1, at |-> 0, start |-> 0, hits |-> 0, under |-> FALSE]

Observe(m, t, interval, threshold) ==
  IF m.n = 0
  THEN [n |-> 1, at |-> t, start |-> t, hits |-> 1, under |-> 1 < threshold]
  ELSE IF m.n = -1 \/ t - m.at >= interval THEN Broken
  ELSE LET restart == t - m.start >= interval
           hits == IF restart THEN 1 ELSE m.hits + 1
       IN [n |-> m.n + 1, at |-> t,
           start |-> IF restart THEN t ELSE m.start,
           hits |-> hits, under |-> m.under /\ hits < threshold]

Interrupt(m) == IF m.n = 0 THEN m ELSE Broken

\* last before any request.  Besides the request and its outcome, last keeps
\* what the request found: wd is wdeny of its client, pgap and pcount are the
\* age and the count of the entry of its page key (-1 when there was none);
\* notified says whether the request set off the notifications.
NoRequest ==
  [useragent_ip |-> <<>>, uri |-> <<>>, prev |-> FALSE, main |-> FALSE,
   ret |-> OK, path |-> "none", page |-> FALSE, site |-> FALSE,
   wd |-> -1, pgap |-> -1, pcount |-> -1, notified |-> FALSE,
   mem |-> <<TRUE, TRUE>>]

\* The scope as the configuration files of the set leave it, at time 0.
InitFrom(files) ==
  \E file \in files, created \in BOOLEAN :
    \E s \in {Configure(create_dir_conf(created), file, 0, created)} :
      /\ cfg = s.cfg
      /\ hit_list = s.hit_list
      /\ now = 0
      /\ last = NoRequest
      /\ mon = [k \in WinKeys |-> Unseen]
      /\ wdeny = [ip \in IPs |-> -1]
      /\ markers = {}
      /\ workers = NoWorkers
      /\ seen = NeverSeen

Init == InitFrom(ConfigFiles)

\* time(NULL) moves on.
Tick(maxTime) ==
  /\ now < maxTime
  /\ now' = now + 1
  /\ UNCHANGED <<cfg, hit_list, last, mon, wdeny, markers, workers, seen>>

\* The host calls access_checker for request r; mem[1] and mem[2] say whether
\* the allocation in the page block and in the site block succeeds.
Classify(r, maxCount, mem) ==
  LET ip == r.useragent_ip
      pk == PageKey(ip, r.uri)
      sk == SiteKey(ip)
  IN \E res \in {access_checker(cfg, hit_list, r, now, mem)} :
     /\ res.path = "windows" =>
          \A k \in {pk, sk} :
            \E n \in {ntt_find(res.hit_list, k)} :
              n # NULLP => Node(res.hit_list, n).count <= maxCount
     /\ hit_list' = res.hit_list
     /\ \E n \in {ntt_find(hit_list, pk)} :
          last' = [useragent_ip |-> ip, uri |-> r.uri, prev |-> r.prev,
                   main |-> r.main, ret |-> res.ret, path |-> res.path,
                   page |-> res.page, site |-> res.site,
                   wd |-> wdeny[ip],
                   pgap |-> IF n = NULLP THEN -1 ELSE now - Node(hit_list, n).timestamp,
                   pcount |-> IF n = NULLP THEN -1 ELSE Node(hit_list, n).count,
                   notified |-> notifies(cfg, res, ip, markers),
                   mem |-> mem]
     /\ markers' = IF notifies(cfg, res, ip, markers) THEN markers \cup {ip} ELSE markers
     /\ mon' = IF res.path = "windows"
               THEN [mon EXCEPT
                       ![pk] = Observe(@, now, cfg.page_interval, cfg.page_count),
                       ![sk] = Observe(@, now, cfg.site_interval, cfg.site_count)]
               ELSE IF res.path = "hold"
               THEN [mon EXCEPT ![pk] = Interrupt(@), ![sk] = Interrupt(@)]
               ELSE mon
     /\ wdeny' = IF res.path = "off" THEN wdeny
                 ELSE [wdeny EXCEPT ![ip] = IF res.page \/ res.site THEN now ELSE -1]
     /\ UNCHANGED <<cfg, now, workers>>

\* The same with every allocation succeeding.
Request(r, maxCount) == Classify(r, maxCount, <<TRUE, TRUE>>) /\ UNCHANGED seen

Next ==
  \/ Tick(MaxTime)
  \/ \E r \in Requests : Request(r, MaxCount)

Spec == Init /\ [][Next]_vars

\* The same machine under a configuration whose page window is 2 s long and
\* takes 3 hits, followed for longer.
TumblingFiles ==
  { Preamble(IP_W) \o
      <<D("DOSEnabled", "true"), D("DOSPageCount", 3), D("DOSPageInterval", 2),
        D("DOSSiteCount", 4), D("DOSSiteInterval", 2), D("DOSBlockingPeriod", 1)>> }

InitTumbling == InitFrom(TumblingFiles)

NextTumbling ==
  \/ Tick(MaxTimeLong)
  \/ \E r \in Requests : Request(r, MaxCountLong)

SpecTumbling == InitTumbling /\ [][NextTumbling]_vars

\* The classifier with the host keeping track, per client, of when its latest
\* request came and how long after the one before, under two configurations.
SpacedFiles ==
  { \* 1 hit per 2 s on a page, blocking for 2 s
    Preamble(IP_W) \o
      <<D("DOSEnabled", "true"), D("DOSPageCount", 1), D("DOSPageInterval", 2),
        D("DOSBlockingPeriod", 2)>>,
    \* 1 hit per 2 s on the site, blocking for 1 s
    Preamble(IP_W) \o
      <<D("DOSEnabled", "true"), D("DOSSiteCount", 1), D("DOSSiteInterval", 2),
        D("DOSBlockingPeriod", 1)>> }

InitSpaced == InitFrom(SpacedFiles)

\* One client on two paths and on the whitelisted path.
SpacedRequests ==
  {R(IP_A, URI_X, FALSE, FALSE), R(IP_A, URI_Y, FALSE, FALSE),
   R(IP_A, URI_W, FALSE, FALSE)}

RequestSeen(r, maxCount) ==
  /\ Classify(r, maxCount, <<TRUE, TRUE>>)
  /\ seen' = [seen EXCEPT ![r.useragent_ip] =
                [at |-> now, gap |-> IF @.at = -1 THEN -1 ELSE now - @.at]]

NextSpaced ==
  \/ Tick(MaxTime)
  \/ \E r \in SpacedRequests : RequestSeen(r, MaxCount)

SpecSpaced == InitSpaced /\ [][NextSpaced]_vars

(***************************************************************************)
(* Two workers in one store.  First the host runs calls of the page block  *)
(* one after the other; then each worker runs one call, and the steps of   *)
(* the two calls interleave in every way.  No step takes a lock: the       *)
(* module has none.                                                        *)
(***************************************************************************)
\* 1 hit per second on a page.
RaceFiles ==
  { <<D("DOSHashTableSize", 50), D("DOSEnabled", "true"), D("DOSPageCount", 1),
      D("DOSPageInterval", 1)>> }

\* One client on two paths whose keys share a bucket of the 53.
URI_C == <<"/", "C">>
RaceRequests == {R(IP_A, URI_X, FALSE, FALSE), R(IP_A, URI_C, FALSE, FALSE)}

InitRace ==
  \E file \in RaceFiles :
    \E s \in {Configure(create_dir_conf(TRUE), file, 0, TRUE)} :
      /\ cfg = s.cfg
      /\ hit_list = s.hit_list
      /\ now = 0
      /\ last = NoRequest
      /\ mon = [k \in WinKeys |-> Unseen]
      /\ wdeny = [ip \in IPs |-> -1]
      /\ markers = {}
      /\ workers = [NoWorkers EXCEPT !.ref = s.hit_list]
      /\ seen = NeverSeen

Running(w) == workers.proc[w].pc \notin {"idle", "done"}

\* A call of the page block that runs alone, before the workers start.
Serial(r, maxCount) ==
  /\ \A w \in Workers : workers.proc[w].pc = "idle"
  /\ \E res \in {page_check(cfg, hit_list, r, now, TRUE)} :
       /\ \E n \in {ntt_find(res.hit_list, PageKey(r.useragent_ip, r.uri))} :
            n # NULLP => Node(res.hit_list, n).count <= maxCount
       /\ hit_list' = res.hit_list
       /\ workers' = [workers EXCEPT !.ref = res.hit_list]
  /\ UNCHANGED <<cfg, now, last, mon, wdeny, markers, seen>>

\* Worker w takes request r: time(NULL), line 214, and the key, line 237.
RaceStart(w, r) ==
  /\ workers.proc[w].pc = "idle"
  /\ workers' =
       [workers EXCEPT
          !.proc[w] = [@ EXCEPT !.pc = "find", !.r = r, !.t = now],
          !.ref = page_check(cfg, @, r, now, TRUE).hit_list,
          !.overlapped = @ \/ \E v \in Workers \ {w} : Running(v)]
  /\ UNCHANGED <<cfg, hit_list, now, last, mon, wdeny, markers, seen>>

\* Line 239: n = ntt_find(hit_list, hash_key); without a node the call goes to
\* ntt_insert of the page key, line 256.
RaceFind(w) ==
  LET p == workers.proc[w]
      hash_key == PageKey(p.r.useragent_ip, p.r.uri)
      n == ntt_find(hit_list, hash_key)
  IN /\ p.pc = "find"
     /\ workers' =
          [workers EXCEPT
             !.proc[w] = IF n # NULLP
                         THEN [@ EXCEPT !.pc = "check", !.n = n]
                         ELSE [@ EXCEPT !.pc = "walk", !.key = hash_key]]
     /\ UNCHANGED <<cfg, hit_list, now, last, mon, wdeny, markers, seen>>

\* Lines 243 and 249: the reads of n->timestamp and n->count that choose the
\* branch; the branch that denies goes to ntt_insert of the client, line 245.
RaceCheck(w) ==
  LET p == workers.proc[w]
      node == Node(hit_list, p.n)
      hit == /\ p.t - node.timestamp < cfg.page_interval
             /\ node.count >= cfg.page_count
  IN /\ p.pc = "check"
     /\ workers' =
          [workers EXCEPT
             !.proc[w] = IF hit
                         THEN [@ EXCEPT !.pc = "walk", !.key = p.r.useragent_ip,
                                        !.hit = TRUE]
                         ELSE IF p.t - node.timestamp >= cfg.page_interval
                         THEN [@ EXCEPT !.pc = "reset"]
                         ELSE [@ EXCEPT !.pc = "stamp"]]
     /\ UNCHANGED <<cfg, hit_list, now, last, mon, wdeny, markers, seen>>

\* Line 250: n->count = 0.
RaceReset(w) ==
  LET p == workers.proc[w]
  IN /\ p.pc = "reset"
     /\ hit_list' = [hit_list EXCEPT !.tbl[p.n.b][p.n.i].count = 0]
     /\ workers' = [workers EXCEPT !.proc[w].pc = "stamp"]
     /\ UNCHANGED <<cfg, now, last, mon, wdeny, markers, seen>>

\* Line 253: n->timestamp = t.
RaceStamp(w) ==
  LET p == workers.proc[w]
  IN /\ p.pc = "stamp"
     /\ hit_list' = [hit_list EXCEPT !.tbl[p.n.b][p.n.i].timestamp = p.t]
     /\ workers' = [workers EXCEPT !.proc[w].pc = "load"]
     /\ UNCHANGED <<cfg, now, last, mon, wdeny, markers, seen>>

\* Line 254, n->count++: the read.
RaceLoad(w) ==
  LET p == workers.proc[w]
  IN /\ p.pc = "load"
     /\ workers' = [workers EXCEPT !.proc[w].pc = "store",
                                   !.proc[w].count = Node(hit_list, p.n).count]
     /\ UNCHANGED <<cfg, hit_list, now, last, mon, wdeny, markers, seen>>

\* Line 254, n->count++: the write.  The call is over.
RaceStore(w) ==
  LET p == workers.proc[w]
  IN /\ p.pc = "store"
     /\ hit_list' = [hit_list EXCEPT !.tbl[p.n.b][p.n.i].count = p.count + 1]
     /\ workers' = [workers EXCEPT !.proc[w].pc = "done"]
     /\ UNCHANGED <<cfg, now, last, mon, wdeny, markers, seen>>

\* Where a call goes when its ntt_insert returns: on to line 253 from the
\* branch that denies, to the end from line 256.
AfterInsert(p) == IF p.hit THEN "stamp" ELSE "done"

\* ntt_insert, lines 524 to 535: the walk of the chain, which ends with the
\* node of the key or with the last node of the chain as parent.
RaceWalk(w) ==
  LET p == workers.proc[w]
      hash_code == ntt_hashcode(hit_list, p.key)
      chain == Chain(hit_list, hash_code)
      i == ChainIndex(chain, p.key, 1)
  IN /\ p.pc = "walk"
     /\ workers' =
          [workers EXCEPT
             !.proc[w] = IF i # 0
                         THEN [@ EXCEPT !.pc = "touch",
                                        !.m = [b |-> hash_code, i |-> i]]
                         ELSE [@ EXCEPT !.pc = "iload", !.parent = Len(chain)]]
     /\ UNCHANGED <<cfg, hit_list, now, last, mon, wdeny, markers, seen>>

\* ntt_insert, lines 537 to 541: the node of the key is there.
RaceTouch(w) ==
  LET p == workers.proc[w]
  IN /\ p.pc = "touch"
     /\ hit_list' = [hit_list EXCEPT !.tbl[p.m.b][p.m.i].timestamp = p.t,
                                     !.tbl[p.m.b][p.m.i].count = 0]
     /\ workers' = [workers EXCEPT !.proc[w].pc = AfterInsert(p)]
     /\ UNCHANGED <<cfg, now, last, mon, wdeny, markers, seen>>

\* ntt_insert, line 546, ntt->items++: the read.
RaceItemsLoad(w) ==
  LET p == workers.proc[w]
  IN /\ p.pc = "iload"
     /\ workers' = [workers EXCEPT !.proc[w].pc = "istore",
                                   !.proc[w].items = hit_list.items]
     /\ UNCHANGED <<cfg, hit_list, now, last, mon, wdeny, markers, seen>>

\* ntt_insert, line 546, ntt->items++: the write.
RaceItemsStore(w) ==
  LET p == workers.proc[w]
  IN /\ p.pc = "istore"
     /\ hit_list' = [hit_list EXCEPT !.items = p.items + 1]
     /\ workers' = [workers EXCEPT !.proc[w].pc = "link"]
     /\ UNCHANGED <<cfg, now, last, mon, wdeny, markers, seen>>

\* A faulty link that puts the new node at the head of the bucket whatever the
\* parent.  C18 has to tell it from LinkAt.
LinkAt_head(chain, parent, new_node) == <<new_node>>

\* The chain after parent->next = new_node, or tbl[hash_code] = new_node when
\* there is no parent: what the pointer led to before is no longer in it.
LinkAt(chain, parent, new_node) == Append(SubSeq(chain, 1, parent), new_node)

\* ntt_insert, lines 549 to 557: the new node, made at line 544, is linked.
RaceLink(w) ==
  LET p == workers.proc[w]
      hash_code == ntt_hashcode(hit_list, p.key)
      chain == Chain(hit_list, hash_code)
      linked == LinkAt(chain, p.parent, ntt_node_create(p.key, p.t))
  IN /\ p.pc = "link"
     /\ hit_list' =
          [hit_list EXCEPT
             !.tbl = (hash_code :> linked) @@ @]
     /\ workers' = [workers EXCEPT
                      !.proc[w].pc = AfterInsert(p),
                      !.unreachable = @ + Len(chain) + 1 - Len(linked)]
     /\ UNCHANGED <<cfg, now, last, mon, wdeny, markers, seen>>

RaceStep(w) ==
  \/ RaceFind(w)
  \/ RaceCheck(w)
  \/ RaceReset(w)
  \/ RaceStamp(w)
  \/ RaceLoad(w)
  \/ RaceStore(w)
  \/ RaceWalk(w)
  \/ RaceTouch(w)
  \/ RaceItemsLoad(w)
  \/ RaceItemsStore(w)
  \/ RaceLink(w)

NextRace ==
  \/ Tick(MaxTimeRace)
  \/ \E r \in RaceRequests : Serial(r, MaxCountRace)
  \/ \E w \in Workers, r \in RaceRequests : RaceStart(w, r)
  \/ \E w \in Workers : RaceStep(w)

SpecRace == InitRace /\ [][NextRace]_vars

(***************************************************************************)
(* The whitelist check on its own: DOSWhitelist directives and classifier  *)
(* inserts fill the store of a scope, and is_whitelisted is asked about    *)
(* clients.  last is the last call of is_whitelisted: the client and what  *)
(* the call returned.                                                      *)
(***************************************************************************)
\* An IPv6 client, as the host prints its address.
IP_6 == <<"1", "2", "3", "4", ":", ":", "1">>
ListClients == {IP_A, IP_W, IP_6}

\* What DOSWhitelist directives give: literal addresses, wildcards at the end
\* for one, two and three octets, a wildcard in the middle, and no first octet.
ListPatterns ==
  {IP_A, IP_6,
   <<"1", ".", "*", ".", "*", ".", "*">>,
   <<"1", ".", "2", ".", "*", ".", "*">>,
   <<"1", ".", "2", ".", "3", ".", "*">>,
   <<"1", ".", "3", ".", "*", ".", "*">>,
   <<"1", ".", "*", ".", "3", ".", "4">>,
   IP_W_WILD,
   <<".", "*", ".", "*", ".", "*">>}

InitList ==
  \E s \in {get_hash_tbl_size(create_dir_conf(TRUE), 50, TRUE)} :
    /\ cfg = s.cfg
    /\ hit_list = s.hit_list
    /\ now = 0
    /\ last = [op |-> "none"]
    /\ mon = [k \in WinKeys |-> Unseen]
    /\ wdeny = [ip \in IPs |-> -1]
    /\ markers = {}
    /\ workers = NoWorkers
    /\ seen = NeverSeen

\* DOSWhitelist ip.
ListWhitelist(ip, maxListed) ==
  /\ hit_list.items < maxListed
  /\ \E s \in {whitelist([cfg |-> cfg, hit_list |-> hit_list], ip, now)} :
       hit_list' = s.hit_list
  /\ UNCHANGED <<cfg, now, last, mon, wdeny, markers, workers, seen>>

\* The classifier inserts a key of its own: a hold, a page or a site entry.
ListTrack(key, maxListed) ==
  /\ hit_list.items < maxListed
  /\ hit_list' = ntt_insert(hit_list, key, now, TRUE)
  /\ UNCHANGED <<cfg, now, last, mon, wdeny, markers, workers, seen>>

\* is_whitelisted(ip, cfg), line 217.
ListCheck(ip) ==
  /\ last' = [op |-> "is_whitelisted", ip |-> ip, ret |-> is_whitelisted(ip, hit_list)]
  /\ UNCHANGED <<cfg, hit_list, now, mon, wdeny, markers, workers, seen>>

NextList ==
  \/ \E ip \in ListPatterns : ListWhitelist(ip, MaxListed)
  \/ \E ip \in ListClients : \E key \in {ip, PageKey(ip, URI_X), SiteKey(ip)} :
       ListTrack(key, MaxListed)
  \/ \E ip \in ListClients : ListCheck(ip)

SpecList == InitList /\ [][NextList]_vars

\* The configuration of a scope on its own: from create_dir_conf, the host
\* applies the directives of the file one at a time, in the order of the file.
\* last.applied is the part of the file read so far.
ConfigDirectives ==
  {D("DOSEnabled", "true"), D("DOSHashTableSize", 50), D("DOSHashTableSize", 0),
   D("DOSPageCount", 1), D("DOSSiteCount", 1), D("DOSPageInterval", 2),
   D("DOSSiteInterval", 2), D("DOSBlockingPeriod", 2),
   D("DOSWhitelist", IP_W), D("DOSWhitelist", IP_W_WILD),
   D("DOSWhitelistUri", URI_W)}

InitConfig ==
  \E s \in {create_dir_conf(TRUE)} :
    /\ cfg = s.cfg
    /\ hit_list = s.hit_list
    /\ now = 0
    /\ last = [applied |-> <<>>]
    /\ mon = [k \in WinKeys |-> Unseen]
    /\ wdeny = [ip \in IPs |-> -1]
    /\ markers = {}
    /\ workers = NoWorkers
    /\ seen = NeverSeen

\* The handler of the next directive of the file runs on the scope.
Apply(d, maxDirectives) ==
  /\ Len(last.applied) < maxDirectives
  /\ \E s \in {Directive([cfg |-> cfg, hit_list |-> hit_list], d, now, TRUE)} :
       /\ cfg' = s.cfg
       /\ hit_list' = s.hit_list
  /\ last' = [applied |-> Append(last.applied, d)]
  /\ UNCHANGED <<now, mon, wdeny, markers, workers, seen>>

NextConfig == \E d \in ConfigDirectives : Apply(d, MaxDirectives)

SpecConfig == InitConfig /\ [][NextConfig]_vars

\* The same machine with an allocator that may fail, under one configuration:
\* 1 hit per second on a page and on the site, blocking for 1 s.
AllocFiles ==
  { Preamble(IP_W) \o
      <<D("DOSEnabled", "true"), D("DOSPageCount", 1), D("DOSSiteCount", 1),
        D("DOSBlockingPeriod", 1)>> }

InitAlloc == InitFrom(AllocFiles)

\* A request whose allocations may fail, while fewer than maxFailed have.
RequestAlloc(r, maxCount, maxFailed) ==
  \E mem \in BOOLEAN \X BOOLEAN :
    /\ Classify(r, maxCount, mem)
    /\ Uncounted(hit_list') <= maxFailed
    /\ UNCHANGED seen

\* The requests of that machine: one client on one path, and the
\* whitelisted client.
AllocRequests == {R(IP_A, URI_X, FALSE, FALSE), R(IP_W, URI_X, FALSE, FALSE)}

NextAlloc ==
  \/ Tick(MaxTimeAlloc)
  \/ \E r \in AllocRequests : RequestAlloc(r, MaxCountAlloc, MaxAllocFailed)

SpecAlloc == InitAlloc /\ [][NextAlloc]_vars

(***************************************************************************)
(* The store on its own: one caller creates a store, inserts, counts and   *)
(* deletes keys, and tears the store down.  last is the last call: op,     *)
(* its arguments, what it returned, and for an insert the count the key    *)
(* had before (-1 if it was not there).                                    *)
(***************************************************************************)
\* Three keys that share bucket 49 of a table of 53; in a table of 97 the
\* first lies apart from the other two.
StoreKeys == {<<"1">>, <<"4", "6">>, <<"5", "1">>}
\* Capacity hints around the primes of the table, its end included.
Hints ==
  {Wide(1), Wide(50), Wide(53), Wide(54), Wide(97), Wide(1610612741),
   [hi |-> 24576, lo |-> 6], [hi |-> 49152, lo |-> 1], [hi |-> 49152, lo |-> 2],
   [hi |-> 65535, lo |-> 65531], [hi |-> 65535, lo |-> 65532], [hi |-> 70000, lo |-> 0]}

InitStore ==
  /\ cfg = create_dir_conf(TRUE).cfg
  /\ hit_list = NULL
  /\ now = 0
  /\ last = [op |-> "none"]
  /\ mon = [k \in WinKeys |-> Unseen]
  /\ wdeny = [ip \in IPs |-> -1]
  /\ markers = {}
  /\ workers = NoWorkers
  /\ seen = NeverSeen

\* ntt_create(hint).  created says whether malloc and calloc succeed; for a
\* table the model's integers cannot hold they do not.
StoreCreate(hint, created) ==
  /\ hit_list = NULL
  /\ created => ntt_size(hint).hi < 32768
  /\ hit_list' = IF created THEN ntt_create(Narrow(hint)) ELSE NULL
  /\ last' = [op |-> "create", hint |-> hint, ret |-> ntt_size(hint), created |-> created]
  /\ UNCHANGED <<cfg, now, mon, wdeny, markers, workers, seen>>

\* ntt_insert(ntt, key, t); mem says whether the allocations of
\* ntt_node_create succeed.
StoreInsert(key, t, mem, maxFailed) ==
  /\ mem \/ Uncounted(hit_list) < maxFailed
  /\ hit_list' = ntt_insert(hit_list, key, t, mem)
  /\ \E n \in {ntt_find(hit_list, key)} :
       last' = [op |-> "insert", key |-> key, timestamp |-> t, mem |-> mem,
                ret |-> ntt_insert_ret(hit_list, key, t, mem),
                was |-> IF n = NULLP THEN -1 ELSE Node(hit_list, n).count]
  /\ UNCHANGED <<cfg, now, mon, wdeny, markers, workers, seen>>

\* n = ntt_find(ntt, key); n->timestamp = t; n->count++, as the classifier
\* counts a hit.
StoreHit(key, t, maxHits) ==
  \E n \in {ntt_find(hit_list, key)} :
    /\ n # NULLP
    /\ Node(hit_list, n).count < maxHits
    /\ hit_list' = [hit_list EXCEPT !.tbl[n.b][n.i].timestamp = t,
                                    !.tbl[n.b][n.i].count = @ + 1]
    /\ last' = [op |-> "hit", key |-> key, timestamp |-> t, ret |-> n]
    /\ UNCHANGED <<cfg, now, mon, wdeny, markers, workers, seen>>

StoreDelete(key) ==
  /\ hit_list' = ntt_delete(hit_list, key)
  /\ last' = [op |-> "delete", key |-> key, ret |-> ntt_delete_ret(hit_list, key)]
  /\ UNCHANGED <<cfg, now, mon, wdeny, markers, workers, seen>>

\* ntt_destroy(ntt): last.ret is the heap when the bucket array is released.
StoreDestroy ==
  /\ hit_list # NULL
  /\ hit_list' = NULL
  /\ last' = [op |-> "destroy", ret |-> ntt_destroy(hit_list)]
  /\ UNCHANGED <<cfg, now, mon, wdeny, markers, workers, seen>>

NextStore ==
  \/ \E hint \in Hints, created \in BOOLEAN : StoreCreate(hint, created)
  \/ \E key \in StoreKeys, t \in 0..MaxStamp, mem \in BOOLEAN :
       StoreInsert(key, t, mem, MaxFailed)
  \/ \E key \in StoreKeys, t \in 0..MaxStamp : StoreHit(key, t, MaxHits)
  \/ \E key \in StoreKeys : StoreDelete(key)
  \/ StoreDestroy

SpecStore == InitStore /\ [][NextStore]_vars
(***************************************************************************)
(* What the claims speak of.  The store is read here entry by entry, not   *)
(* through ntt_find.                                                       *)
(***************************************************************************)
Entries(ntt) ==
  UNION {{ntt.tbl[b][i] : i \in 1..Len(ntt.tbl[b])} : b \in DOMAIN ntt.tbl}
Tracked(ntt, key) == \E e \in Entries(ntt) : e.key = key
EntryOf(ntt, key) == CHOOSE e \in Entries(ntt) : e.key = key

\* The scope classifies top-level requests: it is enabled and has a store.
Classifies == cfg.enabled /\ hit_list # NULL
\* Client ip is on hold now: its bare entry is younger than the blocking period.
Held(ip) ==
  /\ Tracked(hit_list, ip)
  /\ now - EntryOf(hit_list, ip).timestamp < cfg.blocking_period
\* Every configuration file of the model whitelists IP_W and no other client,
\* and the path "/w" and no other path.
Whitelisted(ip) == ip = IP_W
UriWhitelisted(uri) == uri = URI_W
Top(l) == ~l.prev /\ ~l.main
LastPageKey == PageKey(last.useragent_ip, last.uri)
LastSiteKey == SiteKey(last.useragent_ip)

\* C1: for a client and resource with no prior entries, with pageCount = N and
\* every request less than pageInterval after the previous one (no site
\* denial, client not whitelisted), requests 1..N pass and request N+1 is
\* denied by the per-resource window.
C1_FirstNPassNextDenied ==
  (last.path = "windows" /\ mon[LastPageKey].n >= 1 /\ ~last.site) =>
     /\ mon[LastPageKey].n <= cfg.page_count => last.ret = OK
     /\ mon[LastPageKey].n = cfg.page_count + 1 =>
          last.page /\ last.ret = cfg.http_reply

\* C8: with siteCount = N and every request of a fresh client less than
\* siteInterval after the previous one (no per-resource denial), requests
\* 1..N pass and request N+1 is denied by the per-site window, which touches
\* the bare client-IP entry.
C8_SiteFirstNPassNextDenied ==
  (last.path = "windows" /\ mon[LastSiteKey].n >= 1 /\ ~last.page) =>
     /\ mon[LastSiteKey].n <= cfg.site_count => last.ret = OK
     /\ mon[LastSiteKey].n = cfg.site_count + 1 =>
          /\ last.site /\ last.ret = cfg.http_reply
          /\ Tracked(hit_list, last.useragent_ip)
          /\ EntryOf(hit_list, last.useragent_ip).timestamp = mon[LastSiteKey].at

(***************************************************************************)
(* Steps.  A step that leaves now alone is a call of access_checker, and   *)
(* last' is the request and its outcome; the unprimed variables are what   *)
(* the request found.                                                      *)
(***************************************************************************)
IsRequest == now' = now
\* A top-level request in a scope that classifies: the host hands it to the
\* classifier proper.
IsClassified == IsRequest /\ Classifies /\ Top(last')
Denied(l) == l.ret = cfg.http_reply /\ l.ret # OK

\* C2: whenever a request is denied by the per-resource or per-site window at
\* time t, the bare client-IP entry exists afterwards with timestamp t, and the
\* next request from that client less than blocking_period after t is denied
\* whatever its path.
C2_WindowDenialHolds ==
  [][/\ (IsRequest /\ (last'.page \/ last'.site)) =>
          /\ Tracked(hit_list', last'.useragent_ip)
          /\ EntryOf(hit_list', last'.useragent_ip).timestamp = now
          /\ wdeny'[last'.useragent_ip] = now
     /\ (IsClassified /\ wdeny[last'.useragent_ip] # -1
           /\ now - wdeny[last'.useragent_ip] < cfg.blocking_period) =>
          Denied(last')]_vars

\* C2 happens: a request for a path its client never asked for before is
\* denied because the client's previous request was denied by a window.
C2_Witness ==
  /\ last.path = "hold" /\ Denied(last)
  /\ last.wd # -1 /\ last.pcount = -1
  /\ ~Tracked(hit_list, LastPageKey)

\* C3, as stated: for a client with a bare entry that is not whitelisted, a
\* request is denied by the hold exactly when now - timestamp < blocking_period,
\* the timestamp then becomes now, and a request that comes later than that is
\* evaluated against the windows.
C3_HoldThenWindows ==
  [][(IsClassified /\ ~Whitelisted(last'.useragent_ip)
        /\ Tracked(hit_list, last'.useragent_ip)) =>
       IF now - EntryOf(hit_list, last'.useragent_ip).timestamp < cfg.blocking_period
       THEN /\ last'.path = "hold" /\ Denied(last')
            /\ EntryOf(hit_list', last'.useragent_ip).timestamp = now
       ELSE last'.path = "windows"]_vars

\* C3, amended: the same, but a request that is not denied by the hold is
\* evaluated against the windows unless its path matches a URI whitelist
\* pattern, in which case it passes with the store unchanged.
C3_HoldThenUriThenWindows ==
  [][(IsClassified /\ ~Whitelisted(last'.useragent_ip)
        /\ Tracked(hit_list, last'.useragent_ip)) =>
       IF now - EntryOf(hit_list, last'.useragent_ip).timestamp < cfg.blocking_period
       THEN /\ last'.path = "hold" /\ Denied(last')
            /\ EntryOf(hit_list', last'.useragent_ip).timestamp = now
       ELSE IF UriWhitelisted(last'.uri)
       THEN last'.path = "uri_whitelisted" /\ last'.ret = OK /\ hit_list' = hit_list
       ELSE last'.path = "windows"]_vars

\* C3 happens: a client is still denied by the hold blocking_period or more
\* after its last request that reached the windows, so the hold it is denied by
\* is one that an earlier denied request renewed.
C3_Witness ==
  /\ last.path = "hold" /\ Denied(last)
  /\ Tracked(hit_list, LastSiteKey)
  /\ now - EntryOf(hit_list, LastSiteKey).timestamp >= cfg.blocking_period
  /\ EntryOf(hit_list, last.useragent_ip).timestamp = now

\* C4, as stated: a request for a tracked page key that comes page_interval or
\* more after the entry's timestamp is not denied by the per-resource window,
\* and afterwards the entry has count 1 and timestamp now.
C4_RolloverAlways ==
  [][(IsClassified /\ Tracked(hit_list, PageKey(last'.useragent_ip, last'.uri))
        /\ now - EntryOf(hit_list, PageKey(last'.useragent_ip, last'.uri)).timestamp
             >= cfg.page_interval) =>
       /\ ~last'.page
       /\ EntryOf(hit_list', PageKey(last'.useragent_ip, last'.uri)).count = 1
       /\ EntryOf(hit_list', PageKey(last'.useragent_ip, last'.uri)).timestamp = now]_vars

\* C4, amended: the same for a request from a client that is not on hold.
C4_RolloverUnlessHeld ==
  [][(IsClassified /\ Tracked(hit_list, PageKey(last'.useragent_ip, last'.uri))
        /\ now - EntryOf(hit_list, PageKey(last'.useragent_ip, last'.uri)).timestamp
             >= cfg.page_interval
        /\ ~Held(last'.useragent_ip)) =>
       /\ ~last'.page /\ last'.path = "windows"
       /\ EntryOf(hit_list', PageKey(last'.useragent_ip, last'.uri)).count = 1
       /\ EntryOf(hit_list', PageKey(last'.useragent_ip, last'.uri)).timestamp = now]_vars

\* C4 happens: a request found its page entry exactly page_interval old with a
\* count at the threshold or above, and left it with count 1 and timestamp now.
C4_Witness ==
  /\ last.path = "windows" /\ ~last.page
  /\ last.pgap = cfg.page_interval /\ last.pcount >= cfg.page_count
  /\ EntryOf(hit_list, LastPageKey).count = 1
  /\ EntryOf(hit_list, LastPageKey).timestamp = now

\* C5: a request from a whitelisted client, whether the entry names its address
\* or a wildcard prefix of it, passes and leaves the store as it was.
C5_WhitelistedClientUntouched ==
  [][(IsRequest /\ Whitelisted(last'.useragent_ip)) =>
       last'.ret = OK /\ ~last'.page /\ ~last'.site /\ hit_list' = hit_list]_vars

\* C5 happens: a client that only a wildcard entry covers was passed as
\* whitelisted, and the whitelist entry is still the store's only entry.
C5_Witness ==
  /\ last.path = "whitelisted" /\ last.useragent_ip = IP_W
  /\ ~Tracked(hit_list, WHITELIST_ \o IP_W)
  /\ Tracked(hit_list, WHITELIST_ \o IP_W_WILD)
  /\ hit_list.items = 1

\* C6: a request whose path matches a URI whitelist pattern, from a client that
\* is not on hold, passes and leaves the store as it was, whatever the client's
\* window counters are.
C6_UriWhitelistedUntouched ==
  [][(IsRequest /\ UriWhitelisted(last'.uri) /\ ~Held(last'.useragent_ip)) =>
       last'.ret = OK /\ hit_list' = hit_list]_vars

\* C6 happens: a request passed as URI-whitelisted while the site counter of
\* its client was at the threshold, within the interval.
C6_Witness ==
  /\ last.path = "uri_whitelisted" /\ last.ret = OK
  /\ Tracked(hit_list, LastSiteKey)
  /\ EntryOf(hit_list, LastSiteKey).count >= cfg.site_count
  /\ now - EntryOf(hit_list, LastSiteKey).timestamp < cfg.site_interval

\* C7: a request from a client on hold is denied and renews the hold even when
\* its path matches a URI whitelist pattern.
C7_HoldBeforeUriWhitelist ==
  [][(IsClassified /\ Held(last'.useragent_ip) /\ UriWhitelisted(last'.uri)) =>
       /\ Denied(last') /\ last'.path = "hold"
       /\ EntryOf(hit_list', last'.useragent_ip).timestamp = now]_vars

\* C7 happens: a request for the URI-whitelisted path was denied by the hold.
C7_Witness ==
  /\ last.path = "hold" /\ Denied(last) /\ UriWhitelisted(last.uri)
  /\ EntryOf(hit_list, last.useragent_ip).timestamp = now

\* C10: when the scope is not enabled, or the request is a subrequest or an
\* internal redirect, or the scope has no store, the request passes and the
\* store is left as it was.
C10_UncheckedUntouched ==
  [][(IsRequest /\ (~cfg.enabled \/ last'.prev \/ last'.main \/ hit_list = NULL)) =>
       last'.ret = OK /\ last'.path = "off" /\ hit_list' = hit_list]_vars

\* C10 happens: a subrequest of a client on hold passed.
C10_Witness ==
  /\ last.main /\ last.ret = OK /\ last.path = "off"
  /\ Classifies /\ Held(last.useragent_ip)

\* C9: the windows are tumbling windows.  A request is never denied by a
\* window whose key has only seen requests less than one interval apart and
\* fewer than the threshold in every interval-length window, where a window
\* starts at the first request and again at the first request that comes an
\* interval or more after the start of the window before.
C9_TumblingNeverDenied ==
  last.path = "windows" =>
    /\ (mon[LastPageKey].n >= 1 /\ mon[LastPageKey].under) => ~last.page
    /\ (mon[LastSiteKey].n >= 1 /\ mon[LastSiteKey].under) => ~last.site

(***************************************************************************)
(* The store on its own.                                                   *)
(***************************************************************************)
\* C11: after any sequence of inserts, hits and deletes by one caller, no two
\* entries share a key, every entry sits in the chain of the bucket its key
\* hashes to, and ntt_find(k) gives the entry whose key is k if there is one
\* and NULL otherwise.
C11_StoreWellFormed ==
  hit_list # NULL =>
    /\ \A b \in DOMAIN hit_list.tbl :
         /\ hit_list.tbl[b] # <<>>
         /\ \A i \in 1..Len(hit_list.tbl[b]) :
              /\ hashval(hit_list.tbl[b][i].key, Len(hit_list.tbl[b][i].key),
                         hit_list.size) = b
              /\ \A j \in 1..Len(hit_list.tbl[b]) :
                   hit_list.tbl[b][i].key = hit_list.tbl[b][j].key => i = j
    /\ \A k \in StoreKeys :
         IF Tracked(hit_list, k)
         THEN /\ ntt_find(hit_list, k) # NULLP
              /\ Node(hit_list, ntt_find(hit_list, k)).key = k
         ELSE ntt_find(hit_list, k) = NULLP
    /\ (last.op = "insert" /\ last.ret # NULLP) =>
         /\ Node(hit_list, last.ret).key = last.key
         /\ Node(hit_list, last.ret).count = 0
         /\ Node(hit_list, last.ret).timestamp = last.timestamp
    /\ last.op = "delete" => ~Tracked(hit_list, last.key)
    /\ last.op = "hit" => Node(hit_list, last.ret).key = last.key

\* C11 happens: the key at the head of a chain of three colliding entries was
\* deleted, and the two that are left are found under their own keys.
C11_Witness ==
  /\ last.op = "delete" /\ last.ret = 0
  /\ \E b \in DOMAIN hit_list.tbl :
       /\ Len(hit_list.tbl[b]) = 2
       /\ ntt_find(hit_list, hit_list.tbl[b][2].key) = [b |-> b, i |-> 2]
       /\ hashval(last.key, Len(last.key), hit_list.size) = b

\* C12: ntt_insert of a key that is there resets its count to 0 and its
\* timestamp to the one given, returns that entry, changes neither the item
\* count nor any other entry, and a second call with the same timestamp
\* changes nothing more.
C12_TouchResets ==
  [][(last'.op = "insert" /\ Tracked(hit_list, last'.key)) =>
       /\ ntt_insert(hit_list, last'.key, last'.timestamp, ~last'.mem) = hit_list'
       /\ last'.ret = ntt_find(hit_list, last'.key)
       /\ Node(hit_list', last'.ret) =
            [key |-> last'.key, timestamp |-> last'.timestamp, count |-> 0]
       /\ hit_list'.items = hit_list.items
       /\ hit_list'.size = hit_list.size
       /\ DOMAIN hit_list'.tbl = DOMAIN hit_list.tbl
       /\ \A p \in Cells(hit_list) :
            p # last'.ret => Node(hit_list', p) = Node(hit_list, p)
       /\ Cells(hit_list') = Cells(hit_list)
       /\ ntt_insert(hit_list', last'.key, last'.timestamp, last'.mem) = hit_list']_vars

\* C12 happens: an entry that had been counted, in the middle of a chain of
\* three, was touched and now has count 0.
C12_Witness ==
  /\ last.op = "insert" /\ last.was >= 1 /\ last.ret.i = 2
  /\ Len(hit_list.tbl[last.ret.b]) = 3
  /\ Node(hit_list, last.ret).count = 0

\* The primes of the table.
AllPrimes == {PrimeAt(i) : i \in 0..(ntt_num_primes - 1)}

\* C13: ntt_create(hint) gives the table the smallest prime of the table that
\* is at least hint, or the largest prime when hint is above them all; hint 50
\* gives 53 and a prime gives itself.
C13_SmallestPrimeAtLeastHint ==
  last.op = "create" =>
    /\ last.ret \in AllPrimes
    /\ IF \E p \in AllPrimes : ~Less(p, last.hint)
       THEN /\ ~Less(last.ret, last.hint)
            /\ \A p \in AllPrimes : ~Less(p, last.hint) => ~Less(p, last.ret)
       ELSE \A p \in AllPrimes : ~Less(last.ret, p)
    /\ last.hint = Wide(50) => last.ret = Wide(53)
    /\ last.hint \in AllPrimes => last.ret = last.hint
    /\ last.created => hit_list.size = Narrow(last.ret)

\* C13 happens: a hint above every prime of the table got the largest one.
C13_Witness ==
  /\ last.op = "create"
  /\ \A p \in AllPrimes : Less(p, last.hint)
  /\ last.ret = [hi |-> 65535, lo |-> 65531]

\* C14: ntt_destroy of a store reached by any inserts and deletes frees every
\* entry exactly once, never looks into a freed entry, leaves no entry in the
\* table and has the item count at zero when it releases the bucket array.
C14_TeardownFreesAllOnce ==
  [][last'.op = "destroy" =>
       /\ last'.ret.freed = Cells(hit_list)
       /\ ~last'.ret.twice
       /\ ~last'.ret.stale
       /\ \A b \in DOMAIN last'.ret.head : last'.ret.head[b] = NULLP
       /\ last'.ret.items = 0]_vars

\* C15: with a hold that lasts, the notifications for a client fire once per
\* block episode: on the denial that starts an episode, which finds the client
\* not on hold, and on no denial that finds the client on hold.
C15_NotifiedOncePerEpisode ==
  [][(IsClassified /\ Denied(last') /\ cfg.blocking_period > 0) =>
       (last'.notified <=> ~Held(last'.useragent_ip))]_vars

\* C16: when the allocation of the entry of a first-seen key fails during
\* classification, ntt_insert returns NULL, the key has no entry afterwards,
\* the block of that key does not deny, and the request passes unless the
\* other window denies it on a key that is there; when both keys are new and
\* both allocations fail the request passes and no entry changes.
C16_AllocationFailureFailsOpen ==
  [][(IsClassified /\ last'.path = "windows") =>
       /\ (~last'.mem[1] /\ ~Tracked(hit_list, PageKey(last'.useragent_ip, last'.uri))) =>
            /\ ntt_insert_ret(hit_list, PageKey(last'.useragent_ip, last'.uri),
                              now, last'.mem[1]) = NULLP
            /\ ~Tracked(hit_list', PageKey(last'.useragent_ip, last'.uri))
            /\ ~last'.page
            /\ last'.ret = OK \/ last'.site
       /\ (~last'.mem[2] /\ ~Tracked(hit_list, SiteKey(last'.useragent_ip))) =>
            /\ ~Tracked(hit_list', SiteKey(last'.useragent_ip))
            /\ ~last'.site
            /\ last'.ret = OK \/ last'.page
       /\ (~last'.mem[1] /\ ~last'.mem[2]
             /\ ~Tracked(hit_list, PageKey(last'.useragent_ip, last'.uri))
             /\ ~Tracked(hit_list, SiteKey(last'.useragent_ip))) =>
            last'.ret = OK /\ Entries(hit_list') = Entries(hit_list)]_vars

\* C16 happens: the first request of a client found both allocations failing
\* and passed, and the client has no entry.
C16_Witness ==
  /\ last.path = "windows" /\ last.mem = <<FALSE, FALSE>> /\ last.ret = OK
  /\ last.pcount = -1
  /\ ~Tracked(hit_list, LastPageKey) /\ ~Tracked(hit_list, LastSiteKey)
  /\ Uncounted(hit_list) = 2

\* C17: a request denied because the client is on hold changes nothing in the
\* store but the timestamp of the client's bare entry, which becomes the time
\* of the request: no entry is added, no count and no other timestamp changes,
\* and the item count stays.
C17_HoldTouchesOnlyBareEntry ==
  [][(IsRequest /\ last'.path = "hold") =>
       /\ Tracked(hit_list, last'.useragent_ip)
       /\ last'.ret = cfg.http_reply
       /\ hit_list'.size = hit_list.size /\ hit_list'.items = hit_list.items
       /\ DOMAIN hit_list'.tbl = DOMAIN hit_list.tbl
       /\ \A b \in DOMAIN hit_list.tbl :
            /\ Len(hit_list'.tbl[b]) = Len(hit_list.tbl[b])
            /\ \A i \in 1..Len(hit_list.tbl[b]) :
                 hit_list'.tbl[b][i] =
                   IF hit_list.tbl[b][i].key = last'.useragent_ip
                   THEN [hit_list.tbl[b][i] EXCEPT !.timestamp = now]
                   ELSE hit_list.tbl[b][i]]_vars

\* C17 happens: a held client was denied at a later second than its page entry
\* was last touched, and its bare entry carries the time of the denial.
C17_Witness ==
  /\ last.path = "hold" /\ now > 0
  /\ Tracked(hit_list, LastPageKey)
  /\ EntryOf(hit_list, LastPageKey).timestamp < now
  /\ EntryOf(hit_list, last.useragent_ip).timestamp = now

\* C20: no classifier call removes an entry: over every call the keys in the
\* store before it are keys in the store after it, and the item count does not
\* decrease.
C20_EntriesNeverRemoved ==
  [][(IsRequest /\ hit_list # NULL) =>
       /\ hit_list' # NULL
       /\ \A e \in Entries(hit_list) : Tracked(hit_list', e.key)
       /\ hit_list'.items >= hit_list.items]_vars

\* C20 happens: the windows classified a request of a client whose hold had
\* lapsed, and the bare entry of the lapsed hold is still in the store.
C20_Witness ==
  /\ last.path = "windows" /\ cfg.blocking_period > 0
  /\ Tracked(hit_list, last.useragent_ip)
  /\ now - EntryOf(hit_list, last.useragent_ip).timestamp >= cfg.blocking_period
  /\ Tracked(hit_list, LastPageKey) /\ Tracked(hit_list, LastSiteKey)

\* C19: whatever the order of the directives, every IP pattern a whitelist
\* directive has given so far is in the scope's store under the whitelist
\* prefix, and the whitelist check finds the client of a literal pattern.
C19_WhitelistSurvivesAnyOrder ==
  \A i \in 1..Len(last.applied) :
    last.applied[i].name = "DOSWhitelist" =>
      /\ Tracked(hit_list, WHITELIST_ \o last.applied[i].arg)
      /\ is_whitelisted(IP_W, hit_list)

\* Both workers are through with their calls.
BothDone == \A w \in Workers : workers.proc[w].pc = "done"

\* C18: two workers that classify at once can lose an update, and only so: as
\* long as no call has started while another was running, the store is the
\* one the calls leave when each runs alone and every node is in its chain.
\* The loss itself is the state C18_Witness describes.
C18_LossOnlyWhenCallsOverlap ==
  (~workers.overlapped /\ \A w \in Workers : ~Running(w)) =>
    /\ hit_list = workers.ref
    /\ workers.unreachable = 0

\* C18 happens: both workers counted a request for the same key, both read the
\* same count and the count ends one above it, not two; and of the two nodes
\* they inserted for the client one is in no chain, with two items counted.
C18_Witness ==
  /\ BothDone /\ workers.overlapped
  /\ workers.proc[1].r = workers.proc[2].r
  /\ workers.proc[1].hit /\ workers.proc[2].hit
  /\ workers.proc[1].count = workers.proc[2].count
  /\ Node(hit_list, workers.proc[1].n).count = workers.proc[1].count + 1
  /\ workers.unreachable = 1
  /\ Cardinality({e \in Entries(hit_list) : e.key = IP_A}) = 1
  /\ hit_list.items = Cardinality(Entries(hit_list)) + 1

\* The dot-separated parts of an address, and the pattern of its first k parts
\* with a '*' for each of the 4 - k others.
RECURSIVE Join(_)
Join(parts) ==
  IF Len(parts) = 1 THEN parts[1] ELSE parts[1] \o DOT \o Join(Tail(parts))
Parts(ip) == strtok(ip, <<>>)
Pattern(ip, k) == Join(SubSeq(Parts(ip), 1, k) \o [i \in 1..(4 - k) |-> STAR])
Patterns(ip) == {ip} \cup {Pattern(ip, k) : k \in 1..3 \cap 1..Len(Parts(ip))}

\* C21: over every call, is_whitelisted returns true exactly when the store holds, under the
\* whitelist prefix, the client's address or the pattern of its first one, two
\* or three dot-separated parts with '*' for the others; no other entry makes
\* a client whitelisted.
C21_WhitelistedExactly ==
  [][(hit_list' = hit_list /\ last'.op = "is_whitelisted") =>
       (last'.ret <=>
          \E pat \in Patterns(last'.ip) : Tracked(hit_list, WHITELIST_ \o pat))]_vars

\* C22: after any calls of ntt_insert and ntt_delete, those whose allocation
\* fails and those of absent keys included, the item count of the store is the
\* number of entries in its chains.
C22_ItemsCountEntries ==
  hit_list # NULL => hit_list.items = Cardinality(Cells(hit_list))

\* C23: in a scope without a DOSBlockingPeriod directive, whose blocking_period
\* is as create_dir_conf left it, the hold lasts DEFAULT_BLOCKING_PERIOD
\* seconds: when a window denied the client's previous request at time t, a
\* request of the client at t+1 .. t+9 for a path it never asked for is denied.
C23_DefaultHoldIsTen ==
  [][(/\ IsClassified
      /\ cfg.blocking_period = create_dir_conf(TRUE).cfg.blocking_period
      /\ wdeny[last'.useragent_ip] # -1
      /\ now - wdeny[last'.useragent_ip] >= 1
      /\ now - wdeny[last'.useragent_ip] < DEFAULT_BLOCKING_PERIOD
      /\ ~Tracked(hit_list, PageKey(last'.useragent_ip, last'.uri))) =>
       Denied(last')]_vars

\* max(pageInterval, siteInterval, holdDuration) of the scope.
Max(S) == CHOOSE m \in S : \A x \in S : x <= m
Spacing == Max({cfg.page_interval, cfg.site_interval, cfg.blocking_period})

\* C24: a request that is the first of its client, or comes at least
\* max(pageInterval, siteInterval, holdDuration) seconds after the client's
\* previous request, is not denied, whatever the counts of the client's
\* entries; so a client whose every request is so spaced is never denied.
C24_SpacedClientNeverDenied ==
  [][(IsRequest /\ (seen'[last'.useragent_ip].gap = -1
                      \/ seen'[last'.useragent_ip].gap >= Spacing)) =>
       (last'.ret = OK /\ ~last'.page /\ ~last'.site)]_vars

\* C24 happens: a request that came the spacing after its client's previous one
\* passed the windows, though the count of its page entry had reached the
\* threshold and the client had been on hold.
C24_Witness ==
  /\ last.path = "windows" /\ last.ret = OK
  /\ cfg.blocking_period > 0
  /\ seen[last.useragent_ip].at = now
  /\ seen[last.useragent_ip].gap >= Spacing
  /\ last.pcount >= cfg.page_count
  /\ Tracked(hit_list, last.useragent_ip)
====
